---- MODULE Spec2Model ----
(***************************************************************************)
(* Terrain / hydrology pipeline of the tilemap generator:                  *)
(*   MinHeap (binary heap with injected comparator),                       *)
(*   World.smoothMap (double-buffered neighbour averaging),                *)
(*   World.fillSinks (priority-flood sink filling),                        *)
(*   World.calculateDistanceToCoast (breadth-first coast distance),        *)
(*   World.generateRivers (downhill assignment, flux accumulation, river   *)
(*   assembly).                                                            *)
(*                                                                         *)
(* Spec is the World constructor from fillSinks on, SpecFlood its first    *)
(* part, up to the coast distances; SpecHeap is a MinHeap under any        *)
(* sequence of push and pop; SpecDownhill is the downhill pass applied to  *)
(* any elevations and coast distances; SpecRivers is the river assembly    *)
(* applied to flux values around its threshold; SpecSmooth is one call of  *)
(* smoothMap; SpecWorld is the constructor from smoothMap on, for worlds   *)
(* of any number of cells from none to NumCells.                           *)
(*                                                                         *)
(* Elevations are Float32 values in the program.  The model keeps them as  *)
(* integers counted in units of the sink-filling epsilon (1e-5), so that   *)
(* sea level is 0, the near-sea-level threshold 0.05 is 5000 and           *)
(* "elevation + epsilon" is "elevation + 1".  Only the order of elevations *)
(* and the strictness of "+ epsilon" are used by fillSinks and             *)
(* generateRivers; both are kept by this scaling for the magnitudes        *)
(* generateTerrain produces (|h| < 2, where a Float32 step is far below    *)
(* 1e-5).  smoothMap divides: there the integers count steps of the        *)
(* Float32 lattice and a quotient is rounded to the nearest of them.       *)
(*                                                                         *)
(* Cells are the indices 0 .. cellCount-1.  JavaScript arrays are 0-based, *)
(* TLA+ sequences 1-based: the heap array slot k is heap[k+1].             *)
(***************************************************************************)
EXTENDS Integers, Sequences, FiniteSets, Bags, TLC

VARIABLES
    cellCount,      \* World.cellCount: the number of sampled points
    adjacency,      \* World.adjacency: cell -> sequence of neighbour cells
    raw,            \* history: the array a stage was handed, as it was on entry
    smooth,         \* smoothMap: its locals (iterations, k, i, current, the array made for next)
    riverSegments,  \* generateRivers: riverSegments[]
    elevations,     \* World.elevations: cell -> elevation (units of epsilon)
    heap,           \* MinHeap.heap
    visited,        \* fillSinks: visited[] (0 / 1)
    parent,         \* history: the cell u being processed when v was marked visited (NoCell: none)
    popped,         \* history: the cells extracted by fillSinks, each with its elevation
                    \* when it was extracted, in extraction order
    distance,       \* calculateDistanceToCoast: distance[] (distToCoast in generateRivers)
    downhill,       \* generateRivers: downhill[]
    flux,           \* generateRivers: flux[]
    sortedIndices,  \* generateRivers: sortedIndices[]
    fluxPos,        \* generateRivers: the accumulation loop's j
    top,            \* the value returned by the last MinHeap.pop
    held,           \* history: bag of the elements pushed and not yet popped
    pc              \* position in the World constructor / last heap operation

vars == << cellCount, adjacency, raw, smooth, riverSegments, elevations, heap, visited,
           parent, popped, distance, downhill, flux, sortedIndices, fluxPos, top, held, pc >>

----------------------------------------------------------------------------
(* Bounds of the model *)

\* number of cells (World.cellCount) of the generated worlds
NumCells == 5
\* largest number of elements held by the free-standing heap
MaxHeapLen == 5
\* largest iteration count handed to smoothMap
MaxIterations == 3

(* Program constants *)

\* fillSinks: epsilon = 1e-5, the unit of elevation of the model
Epsilon == 1
\* fillSinks / calculateDistanceToCoast: elevation <= 0 is ocean
SeaLevel == 0
\* generateRivers: elevations[i] <= 0.05 gets no downhill target (0.05 = 5000 epsilon)
NearSeaLevel == 5000
\* Int32Array(...).fill(-1): "no downhill target", "distance unknown"
NoCell == -1
\* MinHeap.pop on an empty heap returns undefined
Undefined == -1

Cells == 0 .. (cellCount - 1)

\* the raw elevations a cell may have when fillSinks starts: ocean (0), land at
\* the near-sea-level threshold, and two levels above it one epsilon apart
Levels == {SeaLevel, NearSeaLevel, NearSeaLevel + Epsilon, NearSeaLevel + (2 * Epsilon)}

----------------------------------------------------------------------------
(* MinHeap *)

\* variant of compare: the higher cell comes first
compareDescending(elev, a, b) == elev[b] - elev[a]

\* the comparator fillSinks injects: (a, b) => elevations[a] - elevations[b]
compare(elev, a, b) == elev[a] - elev[b]

swap(h, i, j) == [h EXCEPT ![i + 1] = h[j + 1], ![j + 1] = h[i + 1]]

RECURSIVE bubbleUp(_, _, _)
bubbleUp(h, index, elev) ==
    IF index > 0
    THEN LET parentIndex == (index - 1) \div 2
         IN  IF compare(elev, h[index + 1], h[parentIndex + 1]) < 0
             THEN bubbleUp(swap(h, index, parentIndex), parentIndex, elev)
             ELSE h
    ELSE h

\* variant of swapChild: the left child is taken without looking at the right one
swapChildLeft(h, leftIndex, elev) == leftIndex

\* the child bubbleDown compares with the element at index
swapChild(h, leftIndex, elev) ==
    LET rightIndex == leftIndex + 1
    IN  IF rightIndex < Len(h)
        THEN IF compare(elev, h[leftIndex + 1], h[rightIndex + 1]) < 0
             THEN leftIndex
             ELSE rightIndex
        ELSE leftIndex

RECURSIVE bubbleDown(_, _, _)
bubbleDown(h, index, elev) ==
    LET leftIndex == (index * 2) + 1
    IN  IF leftIndex < Len(h)
        THEN LET swapIndex == swapChild(h, leftIndex, elev)
             IN  IF compare(elev, h[swapIndex + 1], h[index + 1]) < 0
                 THEN bubbleDown(swap(h, index, swapIndex), swapIndex, elev)
                 ELSE h
        ELSE h

push(h, item, elev) == bubbleUp(Append(h, item), Len(h), elev)

\* variant of popEmpty: a default element is returned in place of undefined
popEmptyDefault(h) == [top |-> 0, heap |-> h]

\* what pop returns on an empty heap
popEmpty(h) == [top |-> Undefined, heap |-> h]

\* variant of pop: the top is returned and left in the heap
popKeeps(h, elev) == [top |-> h[1], heap |-> h]

\* pop: the returned value and the heap it leaves
pop(h, elev) ==
    IF Len(h) = 0
    THEN popEmpty(h)
    ELSE LET bottom == h[Len(h)]
             rest   == SubSeq(h, 1, Len(h) - 1)
         IN  [top  |-> h[1],
              heap |-> IF Len(rest) > 0
                       THEN bubbleDown([rest EXCEPT ![1] = bottom], 0, elev)
                       ELSE rest]

----------------------------------------------------------------------------
(* The free-standing heap: any sequence of push and pop over the cells,    *)
(* ordered by a fixed elevation array.                                     *)

NoCells == [c \in Cells |-> NoCell]

\* smoothMap is not running: the value of its locals before and after the call
NotSmoothing == [iterations |-> 0, k |-> 0, i |-> 0, current |-> "data", other |-> << >>]

\* the elements offered to the free-standing heap; the other cells stay at sea level
HeapItems == {0, 1, 2}

InitHeap ==
    /\ cellCount = NumCells
    /\ \E k \in [HeapItems -> Levels] :
           elevations = [c \in Cells |-> IF c \in HeapItems THEN k[c] ELSE SeaLevel]
    /\ raw = elevations
    /\ smooth = NotSmoothing
    /\ riverSegments = << >>
    /\ adjacency = [c \in Cells |-> << >>]
    /\ heap = << >>
    /\ held = EmptyBag
    /\ top = Undefined
    /\ pc = "new"
    /\ visited = [c \in Cells |-> 0]
    /\ parent = NoCells
    /\ popped = << >>
    /\ distance = NoCells
    /\ downhill = NoCells
    /\ flux = [c \in Cells |-> 1]
    /\ sortedIndices = << >>
    /\ fluxPos = 0

HeapPush ==
    \E item \in HeapItems :
        /\ Len(heap) < MaxHeapLen
        /\ heap' = push(heap, item, elevations)
        /\ held' = held (+) SetToBag({item})
        /\ pc' = "push"
        /\ UNCHANGED << cellCount, adjacency, raw, smooth, riverSegments, elevations,
                        visited, parent, popped, distance, downhill, flux,
                        sortedIndices, fluxPos, top >>

HeapPop ==
    LET r == pop(heap, elevations)
    IN  /\ heap' = r.heap
        /\ top' = r.top
        /\ held' = IF r.top = Undefined THEN held ELSE held (-) SetToBag({r.top})
        /\ pc' = IF Len(heap) = 0 THEN "popEmpty" ELSE "pop"
        /\ UNCHANGED << cellCount, adjacency, raw, smooth, riverSegments, elevations,
                        visited, parent, popped, distance, downhill, flux,
                        sortedIndices, fluxPos >>

NextHeap == HeapPush \/ HeapPop

SpecHeap == InitHeap /\ [][NextHeap]_vars

----------------------------------------------------------------------------
(* World: the adjacency cache *)

\* the cell pairs that may share a Voronoi edge: a ring of all cells and one chord
MeshEdges == { {c, (c + 1) % cellCount} : c \in Cells } \cup { {0, 2} }

RECURSIVE ascending(_)
ascending(S) ==
    IF S = {}
    THEN << >>
    ELSE LET m == CHOOSE x \in S : \A y \in S : x <= y
         IN  << m >> \o ascending(S \ {m})

\* precalculateNeighbors: adj[i] = the neighbours of cell i in the Voronoi diagram
\* whose shared edges are E (a neighbour relation is symmetric and irreflexive)
precalculateNeighbors(E) ==
    [i \in Cells |-> ascending({ n \in Cells : n # i /\ {i, n} \in E })]

----------------------------------------------------------------------------
(* World.smoothMap *)

(* The values of a Float32Array are counted in steps of the Float32 lattice *)
(* around them.  "sum" is a double and holds the sum of a few Float32       *)
(* values exactly; "next[i] = sum / count" stores the quotient rounded to   *)
(* the nearest Float32 value, a tie to the even one.                        *)
mean(sum, count) ==
    LET q == sum \div count
        r == sum % count
    IN  IF 2 * r < count \/ (2 * r = count /\ q % 2 = 0) THEN q ELSE q + 1

\* "for (j ...) { sum += current[neighbors[j]]; count++ }", from position j
RECURSIVE neighborSum(_, _, _, _)
neighborSum(cur, neighbors, j, sum) ==
    IF j > Len(neighbors)
    THEN sum
    ELSE neighborSum(cur, neighbors, j + 1, sum + cur[neighbors[j]])

\* variant of smoothCell: the sum starts at 0, not at the cell's own value
smoothCellNeighborsOnly(cur, i, adj) ==
    mean(neighborSum(cur, adj[i], 1, 0), 1 + Len(adj[i]))

\* the value written to next[i]: sum starts at current[i], count at 1
smoothCell(cur, i, adj) ==
    mean(neighborSum(cur, adj[i], 1, cur[i]), 1 + Len(adj[i]))

\* the two arrays of smoothMap are "data" (the argument, World.elevations) and
\* "other" (made by new Float32Array); current names one of them, next the other
otherArray(name) == IF name = "data" THEN "other" ELSE "data"

\* the contents of the array a name refers to
contents(name, data, sm) == IF name = "data" THEN data ELSE sm.other

\* variant of newFloat32Array: the array has one element at least
newFloat32ArrayNotEmpty(n) == [c \in 0 .. (IF n > 0 THEN n - 1 ELSE 0) |-> 0]

\* "new Float32Array(data.length)": n zeros
newFloat32Array(n) == [c \in 0 .. (n - 1) |-> 0]

\* variant of copyBack: data is left as the last pass found it
copyBackNever(data, sm) == data

\* "if (current !== data) data.set(current)"
copyBack(data, sm) == IF sm.current # "data" THEN sm.other ELSE data

----------------------------------------------------------------------------
(* World.fillSinks *)

\* variant of isSeed: the cells up to the near-sea-level threshold are seeds
isSeedNearSea(elev, i) == elev[i] <= NearSeaLevel

\* the seeding test: elevation <= 0 (ocean) is a start of drainage
isSeed(elev, i) == elev[i] <= SeaLevel

\* the seeding loop: push every seed, in index order
RECURSIVE seedHeap(_, _, _)
seedHeap(i, h, elev) ==
    IF i >= cellCount
    THEN h
    ELSE seedHeap(i + 1, IF isSeed(elev, i) THEN push(h, i, elev) ELSE h, elev)

\* variant of isPit: any cell not level with u is taken for a pit
isNotLevel(elev, u, v) == elev[v] # elev[u]

\* "if (this.elevations[v] < this.elevations[u])": v is a pit relative to u
isPit(elev, u, v) == elev[v] < elev[u]

\* variant of raise: epsilon is subtracted
raiseBelow(elev, u, v) == [elev EXCEPT ![v] = elev[u] - Epsilon]

\* "this.elevations[v] = this.elevations[u] + epsilon"
raise(elev, u, v) == [elev EXCEPT ![v] = elev[u] + Epsilon]

\* variant of isVisited: no cell counts as visited
isVisitedNever(vis, v) == FALSE

\* "if (visited[v] === 1) continue"
isVisited(vis, v) == vis[v] = 1

\* "visited[v] = 1"
markVisited(vis, v) == [vis EXCEPT ![v] = 1]

\* the loop over the neighbours of u, from position j (1-based) of its list;
\* st = [elev, visited, heap, parent]
RECURSIVE visitNeighbors(_, _, _, _)
visitNeighbors(st, u, neighbors, j) ==
    IF j > Len(neighbors)
    THEN st
    ELSE LET v == neighbors[j]
         IN  IF isVisited(st.visited, v)
             THEN visitNeighbors(st, u, neighbors, j + 1)
             ELSE LET elev2 == IF isPit(st.elev, u, v) THEN raise(st.elev, u, v) ELSE st.elev
                  IN  visitNeighbors([elev    |-> elev2,
                                      visited |-> markVisited(st.visited, v),
                                      heap    |-> push(st.heap, v, elev2),
                                      parent  |-> [st.parent EXCEPT ![v] = u]],
                                     u, neighbors, j + 1)

----------------------------------------------------------------------------
(* World.calculateDistanceToCoast *)

\* the seeding test of the breadth-first pass
isCoast(elev, i) == elev[i] <= SeaLevel

RECURSIVE seedQueue(_, _, _)
seedQueue(i, queue, elev) ==
    IF i >= cellCount
    THEN queue
    ELSE seedQueue(i + 1, IF isCoast(elev, i) THEN Append(queue, i) ELSE queue, elev)

\* "if (distance[nId] === -1)": the neighbour has no distance yet
isUnknown(dist, nId) == dist[nId] = NoCell

\* the loop over the neighbours of current; st = [dist, queue]
RECURSIVE relaxNeighbors(_, _, _, _)
relaxNeighbors(st, currentDist, neighbors, j) ==
    IF j > Len(neighbors)
    THEN st
    ELSE LET nId == neighbors[j]
         IN  IF isUnknown(st.dist, nId)
             THEN relaxNeighbors([dist  |-> [st.dist EXCEPT ![nId] = currentDist + 1],
                                  queue |-> Append(st.queue, nId)],
                                 currentDist, neighbors, j + 1)
             ELSE relaxNeighbors(st, currentDist, neighbors, j + 1)

\* variant of drainQueue: the queue is served from its end (a stack)
RECURSIVE drainStack(_, _, _)
drainStack(st, queueStart, adj) ==
    IF Len(st.queue) > 0
    THEN LET current == st.queue[Len(st.queue)]
             rest    == [dist  |-> st.dist,
                         queue |-> SubSeq(st.queue, 1, Len(st.queue) - 1)]
         IN  drainStack(relaxNeighbors(rest, st.dist[current], adj[current], 1),
                        queueStart, adj)
    ELSE st.dist

\* "while (queueStart < queue.length)"
RECURSIVE drainQueue(_, _, _)
drainQueue(st, queueStart, adj) ==
    IF queueStart < Len(st.queue)
    THEN LET current == st.queue[queueStart + 1]
         IN  drainQueue(relaxNeighbors(st, st.dist[current], adj[current], 1),
                        queueStart + 1, adj)
    ELSE st.dist

calculateDistanceToCoast(elev, adj) ==
    drainQueue([dist  |-> [i \in Cells |-> IF isCoast(elev, i) THEN 0 ELSE NoCell],
                queue |-> seedQueue(0, << >>, elev)],
               0, adj)

----------------------------------------------------------------------------
(* World.generateRivers: 1. flow direction *)

\* variant of betterNeighbor: a neighbour level with the best so far is taken
\* whatever its coast distance
betterNeighborOrLevel(b, nId, nH, nDist) ==
    IF nH <= b.lowestH
    THEN [bestNeighbor |-> nId, lowestH |-> nH, bestDist |-> nDist]
    ELSE b

\* one neighbour of the scan; b = [bestNeighbor, lowestH, bestDist]
betterNeighbor(b, nId, nH, nDist) ==
    IF nH < b.lowestH
    THEN [bestNeighbor |-> nId, lowestH |-> nH, bestDist |-> nDist]
    ELSE IF nH = b.lowestH /\ nDist < b.bestDist
         THEN [bestNeighbor |-> nId, lowestH |-> b.lowestH, bestDist |-> nDist]
         ELSE b

RECURSIVE scanNeighbors(_, _, _, _, _)
scanNeighbors(b, neighbors, j, elev, dist) ==
    IF j > Len(neighbors)
    THEN b.bestNeighbor
    ELSE LET nId == neighbors[j]
         IN  scanNeighbors(betterNeighbor(b, nId, elev[nId], dist[nId]),
                           neighbors, j + 1, elev, dist)

\* "if (this.elevations[i] <= 0.05) continue"
nearSea(elev, i) == elev[i] <= NearSeaLevel

assignDownhill(elev, dist, adj) ==
    [i \in Cells |->
        IF nearSea(elev, i)
        THEN NoCell
        ELSE scanNeighbors([bestNeighbor |-> NoCell, lowestH |-> elev[i], bestDist |-> dist[i]],
                           adj[i], 1, elev, dist)]

----------------------------------------------------------------------------
(* World.generateRivers: 2. flux *)

\* variant of sortCompare: among level cells the one nearest the coast comes first
sortCompareNearestFirst(elev, dist, a, b) ==
    IF elev[b] # elev[a]
    THEN elev[b] - elev[a]
    ELSE dist[a] - dist[b]

\* the comparator of sortedIndices.sort: elevation descending, then coast
\* distance descending
sortCompare(elev, dist, a, b) ==
    IF elev[b] # elev[a]
    THEN elev[b] - elev[a]
    ELSE dist[b] - dist[a]

\* sortedIndices.sort(...) is a stable sort (ECMAScript 2019 on): the cells end in
\* comparator order, cells that compare equal in index order.  insertSorted puts
\* cell c, which follows every cell of the sorted s in index order, behind the
\* cells that do not compare greater than it.
RECURSIVE insertSorted(_, _, _, _, _)
insertSorted(s, c, p, elev, dist) ==
    IF p <= Len(s) /\ sortCompare(elev, dist, s[p], c) <= 0
    THEN insertSorted(s, c, p + 1, elev, dist)
    ELSE SubSeq(s, 1, p - 1) \o << c >> \o SubSeq(s, p, Len(s))

\* the first n cells (sortedIndices[i] = i), sorted
RECURSIVE sort(_, _, _)
sort(n, elev, dist) ==
    IF n = 0
    THEN << >>
    ELSE insertSorted(sort(n - 1, elev, dist), n - 1, 1, elev, dist)

\* variant of accumulate: the target gains one unit, whatever the cell collected
accumulateUnit(fl, i, target, elev) ==
    IF target >= 0 /\ elev[i] > SeaLevel
    THEN [fl EXCEPT ![target] = fl[target] + 1]
    ELSE fl

\* variant of accumulate: the target's flux is overwritten, not added to
accumulateOverwrite(fl, i, target, elev) ==
    IF target >= 0 /\ elev[i] > SeaLevel
    THEN [fl EXCEPT ![target] = fl[i]]
    ELSE fl

\* "if (target >= 0 && this.elevations[i] > 0) flux[target] += flux[i]"
accumulate(fl, i, target, elev) ==
    IF target >= 0 /\ elev[i] > SeaLevel
    THEN [fl EXCEPT ![target] = fl[target] + fl[i]]
    ELSE fl

----------------------------------------------------------------------------
(* World.generateRivers: 3. river assembly *)

\* "const RIVER_THRESHOLD = 50"
RIVER_THRESHOLD == 50

\* World.points: the coordinates of cell c are points[2c] and points[2c + 1].
\* They are Float64 values, counted here in steps fine enough to tell any two
\* apart; the sampled points lie pairwise further apart than the sampler's
\* minimum distance, here on a lattice of two columns.
points == [k \in 0 .. ((2 * cellCount) - 1) |->
              IF k % 2 = 0 THEN (10 * ((k \div 2) % 2)) + 1
                           ELSE (10 * ((k \div 2) \div 2)) + 3]

\* "new Float32Array(riverSegments)" stores every number in single precision:
\* a coordinate goes to the nearest value of the coarser Float32 lattice (four
\* fine steps apart, a tie to the even multiple).  A flux value is read from a
\* Float32Array and is stored as it is.
toFloat32(x) ==
    LET q == x \div 4
        r == x % 4
    IN  IF r < 2 \/ (r = 2 /\ q % 2 = 0) THEN 4 * q ELSE 4 * (q + 1)

\* variant of isRiver: a flux equal to the threshold makes a river
isRiverFromThreshold(fl, elev, i) == fl[i] >= RIVER_THRESHOLD /\ elev[i] > SeaLevel

\* "if (flux[i] > RIVER_THRESHOLD && this.elevations[i] > 0)"
isRiver(fl, elev, i) == fl[i] > RIVER_THRESHOLD /\ elev[i] > SeaLevel

\* "riverSegments.push(x1, y1, x2, y2, flux[i])", as the Float32Array returned holds it
segment(i, target, fl) ==
    << toFloat32(points[i * 2]), toFloat32(points[(i * 2) + 1]),
       toFloat32(points[target * 2]), toFloat32(points[(target * 2) + 1]),
       fl[i] >>

\* the loop over the cells, from cell i
RECURSIVE assembleRivers(_, _, _, _, _)
assembleRivers(i, segs, fl, elev, dh) ==
    IF i >= cellCount
    THEN segs
    ELSE assembleRivers(i + 1,
                        IF isRiver(fl, elev, i) /\ dh[i] >= 0
                        THEN segs \o segment(i, dh[i], fl)
                        ELSE segs,
                        fl, elev, dh)

----------------------------------------------------------------------------
(* The World constructor from fillSinks on.  Spec stops where the river     *)
(* assembly starts: a world of NumCells cells has no flux above the river   *)
(* threshold; the assembly is part of SpecRivers and SpecWorld.             *)

Init ==
    /\ cellCount = NumCells
    /\ \E E \in SUBSET MeshEdges : adjacency = precalculateNeighbors(E)
    /\ elevations \in [Cells -> Levels]
    /\ raw = elevations
    /\ smooth = NotSmoothing
    /\ riverSegments = << >>
    /\ heap = << >>
    /\ held = EmptyBag
    /\ top = Undefined
    /\ pc = "fillSinks"
    /\ visited = [c \in Cells |-> 0]
    /\ parent = NoCells
    /\ popped = << >>
    /\ distance = NoCells
    /\ downhill = NoCells
    /\ flux = [c \in Cells |-> 1]
    /\ sortedIndices = << >>
    /\ fluxPos = 0

\* fillSinks, lines "1.": the heap and visited[] are created and seeded
FillSinksSeed ==
    /\ pc = "fillSinks"
    /\ heap' = seedHeap(0, << >>, elevations)
    /\ visited' = [i \in Cells |-> IF isSeed(elevations, i) THEN 1 ELSE 0]
    /\ raw' = elevations
    /\ pc' = "flood"
    /\ UNCHANGED << cellCount, adjacency, smooth, riverSegments, elevations,
                    parent, popped, distance, downhill, flux, sortedIndices, fluxPos,
                    top, held >>

\* fillSinks, lines "2.": one turn of "while (heap.length > 0)"
FillSinksStep ==
    /\ pc = "flood"
    /\ Len(heap) > 0
    /\ LET r  == pop(heap, elevations)
           u  == r.top
           st == visitNeighbors([elev |-> elevations, visited |-> visited,
                                 heap |-> r.heap, parent |-> parent],
                                u, adjacency[u], 1)
       IN  /\ top' = u
           /\ popped' = Append(popped, [cell |-> u, elevation |-> elevations[u]])
           /\ elevations' = st.elev
           /\ visited' = st.visited
           /\ heap' = st.heap
           /\ parent' = st.parent
    /\ UNCHANGED << cellCount, adjacency, raw, smooth, riverSegments, distance,
                    downhill, flux, sortedIndices, fluxPos, held, pc >>

\* fillSinks returns; generateRivers starts with calculateDistanceToCoast
CoastDistance ==
    /\ pc = "flood"
    /\ Len(heap) = 0
    /\ distance' = calculateDistanceToCoast(elevations, adjacency)
    /\ pc' = "downhill"
    /\ UNCHANGED << cellCount, adjacency, raw, smooth, riverSegments, elevations,
                    heap, visited, parent, popped, downhill, flux, sortedIndices,
                    fluxPos, top, held >>

\* generateRivers "1.": the downhill target of every cell
AssignDownhill ==
    /\ pc = "downhill"
    /\ downhill' = assignDownhill(elevations, distance, adjacency)
    /\ pc' = "sort"
    /\ UNCHANGED << cellCount, adjacency, raw, smooth, riverSegments, elevations,
                    heap, visited, parent, popped, distance, flux, sortedIndices,
                    fluxPos, top, held >>

\* generateRivers "2.": flux filled with 1 and the indices sorted
SortIndices ==
    /\ pc = "sort"
    /\ flux' = [c \in Cells |-> 1]
    /\ sortedIndices' = sort(cellCount, elevations, distance)
    /\ fluxPos' = 0
    /\ pc' = "flux"
    /\ UNCHANGED << cellCount, adjacency, raw, smooth, riverSegments, elevations,
                    heap, visited, parent, popped, distance, downhill, top, held >>

\* one turn of the accumulation loop
FluxStep ==
    /\ pc = "flux"
    /\ fluxPos < cellCount
    /\ LET i == sortedIndices[fluxPos + 1]
       IN  flux' = accumulate(flux, i, downhill[i], elevations)
    /\ fluxPos' = fluxPos + 1
    /\ UNCHANGED << cellCount, adjacency, raw, smooth, riverSegments, elevations,
                    heap, visited, parent, popped, distance, downhill, sortedIndices,
                    top, held, pc >>

\* the accumulation loop ends
FluxDone ==
    /\ pc = "flux"
    /\ fluxPos = cellCount
    /\ pc' = "rivers"
    /\ UNCHANGED << cellCount, adjacency, raw, smooth, riverSegments, elevations,
                    heap, visited, parent, popped, distance, downhill, flux,
                    sortedIndices, fluxPos, top, held >>

\* generateRivers "3.": the river segments are assembled and returned
AssembleRivers ==
    /\ pc = "rivers"
    /\ riverSegments' = assembleRivers(0, << >>, flux, elevations, downhill)
    /\ pc' = "done"
    /\ UNCHANGED << cellCount, adjacency, raw, smooth, elevations, heap, visited, parent,
                    popped, distance, downhill, flux, sortedIndices, fluxPos, top, held >>

Next ==
    \/ FillSinksSeed
    \/ FillSinksStep
    \/ CoastDistance
    \/ AssignDownhill
    \/ SortIndices
    \/ FluxStep
    \/ FluxDone

Spec == Init /\ [][Next]_vars

\* fillSinks and the coast-distance pass that follows it, without the rest of
\* generateRivers
NextFlood ==
    \/ FillSinksSeed
    \/ FillSinksStep
    \/ CoastDistance

SpecFlood == Init /\ [][NextFlood]_vars

----------------------------------------------------------------------------
(* The downhill pass of generateRivers on its own, applied to any           *)
(* elevations and any coast distances, not only those fillSinks and         *)
(* calculateDistanceToCoast leave.                                          *)

InitDownhill ==
    /\ cellCount = NumCells
    /\ \E E \in SUBSET MeshEdges : adjacency = precalculateNeighbors(E)
    /\ elevations \in [Cells -> {NearSeaLevel + Epsilon, NearSeaLevel + (2 * Epsilon)}]
    /\ raw = elevations
    /\ smooth = NotSmoothing
    /\ riverSegments = << >>
    /\ distance \in [Cells -> {NoCell, 0, 1}]
    /\ heap = << >>
    /\ held = EmptyBag
    /\ top = Undefined
    /\ pc = "downhill"
    /\ visited = [c \in Cells |-> 0]
    /\ parent = NoCells
    /\ popped = << >>
    /\ downhill = NoCells
    /\ flux = [c \in Cells |-> 1]
    /\ sortedIndices = << >>
    /\ fluxPos = 0

NextDownhill == AssignDownhill

SpecDownhill == InitDownhill /\ [][NextDownhill]_vars

----------------------------------------------------------------------------
(* The river assembly of generateRivers on its own, applied to flux values  *)
(* at and just above the threshold, elevations at and above sea level, and  *)
(* cells with and without a downhill target.                                *)

InitRivers ==
    /\ cellCount = NumCells
    /\ adjacency = [c \in Cells |-> << >>]
    /\ elevations \in [Cells -> {SeaLevel, NearSeaLevel + Epsilon}]
    /\ \E T \in SUBSET Cells :
           downhill = [c \in Cells |-> IF c \in T THEN (c + 1) % cellCount ELSE NoCell]
    /\ flux \in [Cells -> {RIVER_THRESHOLD, RIVER_THRESHOLD + 1}]
    /\ raw = elevations
    /\ smooth = NotSmoothing
    /\ riverSegments = << >>
    /\ heap = << >>
    /\ held = EmptyBag
    /\ top = Undefined
    /\ pc = "rivers"
    /\ visited = [c \in Cells |-> 0]
    /\ parent = NoCells
    /\ popped = << >>
    /\ distance = NoCells
    /\ sortedIndices = << >>
    /\ fluxPos = 0

NextRivers == AssembleRivers

SpecRivers == InitRivers /\ [][NextRivers]_vars

----------------------------------------------------------------------------
(* smoothMap on its own: one call on World.elevations, with any iteration   *)
(* count up to MaxIterations, over any field of two values.                 *)

\* the values of the field handed to smoothMap: one below and one above zero,
\* counted in Float32 steps
FieldValues == {-7, 10}

\* the hydrology state that smoothMap does not touch
hydrology == << heap, visited, parent, popped, distance, downhill, flux, sortedIndices,
                fluxPos, top, held, riverSegments >>

InitSmooth ==
    /\ cellCount = NumCells
    /\ \E E \in SUBSET MeshEdges : adjacency = precalculateNeighbors(E)
    /\ elevations \in [Cells -> FieldValues]
    /\ raw = elevations
    /\ smooth = NotSmoothing
    /\ riverSegments = << >>
    /\ heap = << >>
    /\ held = EmptyBag
    /\ top = Undefined
    /\ pc = "smoothMap"
    /\ visited = [c \in Cells |-> 0]
    /\ parent = NoCells
    /\ popped = << >>
    /\ distance = NoCells
    /\ downhill = NoCells
    /\ flux = [c \in Cells |-> 1]
    /\ sortedIndices = << >>
    /\ fluxPos = 0

\* smoothMap is called: current = data, next = a new array of zeros
SmoothEnter ==
    /\ pc = "smoothMap"
    /\ \E iterations \in 0 .. MaxIterations :
           smooth' = [iterations |-> iterations, k |-> 0, i |-> 0, current |-> "data",
                      other |-> newFloat32Array(cellCount)]
    /\ raw' = elevations
    /\ pc' = "pass"
    /\ UNCHANGED << cellCount, adjacency, elevations, hydrology >>

\* one turn of "for (i ...)": next[i] is written
SmoothCell ==
    /\ pc = "pass"
    /\ smooth.k < smooth.iterations
    /\ smooth.i < cellCount
    /\ LET i == smooth.i
           v == smoothCell(contents(smooth.current, elevations, smooth), i, adjacency)
       IN  IF otherArray(smooth.current) = "data"
           THEN /\ elevations' = [elevations EXCEPT ![i] = v]
                /\ smooth' = [smooth EXCEPT !.i = i + 1]
           ELSE /\ elevations' = elevations
                /\ smooth' = [smooth EXCEPT !.other[i] = v, !.i = i + 1]
    /\ UNCHANGED << cellCount, adjacency, raw, hydrology, pc >>

\* a pass ends: current and next are swapped
SmoothSwap ==
    /\ pc = "pass"
    /\ smooth.k < smooth.iterations
    /\ smooth.i = cellCount
    /\ smooth' = [smooth EXCEPT !.current = otherArray(smooth.current),
                                !.k = smooth.k + 1, !.i = 0]
    /\ UNCHANGED << cellCount, adjacency, raw, elevations, hydrology, pc >>

\* the passes are done: the result is copied to data unless it is there already
SmoothReturn ==
    /\ pc = "pass"
    /\ smooth.k = smooth.iterations
    /\ elevations' = copyBack(elevations, smooth)
    /\ pc' = "fillSinks"
    /\ UNCHANGED << cellCount, adjacency, raw, smooth, hydrology >>

NextSmooth ==
    \/ SmoothEnter
    \/ SmoothCell
    \/ SmoothSwap
    \/ SmoothReturn

SpecSmooth == InitSmooth /\ [][NextSmooth]_vars

----------------------------------------------------------------------------
(* The World constructor from the smoothing of the elevations on, for       *)
(* worlds of any number of cells from none to NumCells: smoothMap,          *)
(* fillSinks, generateRivers.  (The smoothing of World.moisture, which no   *)
(* later stage reads, is the same smoothMap on another array.)              *)

InitWorld ==
    /\ cellCount \in 0 .. NumCells
    /\ \E E \in SUBSET MeshEdges : adjacency = precalculateNeighbors(E)
    /\ elevations \in [Cells -> FieldValues]
    /\ raw = elevations
    /\ smooth = NotSmoothing
    /\ riverSegments = << >>
    /\ heap = << >>
    /\ held = EmptyBag
    /\ top = Undefined
    /\ pc = "smoothMap"
    /\ visited = [c \in Cells |-> 0]
    /\ parent = NoCells
    /\ popped = << >>
    /\ distance = NoCells
    /\ downhill = NoCells
    /\ flux = [c \in Cells |-> 1]
    /\ sortedIndices = << >>
    /\ fluxPos = 0

NextWorld ==
    \/ SmoothEnter
    \/ SmoothCell
    \/ SmoothSwap
    \/ SmoothReturn
    \/ FillSinksSeed
    \/ FillSinksStep
    \/ CoastDistance
    \/ AssignDownhill
    \/ SortIndices
    \/ FluxStep
    \/ FluxDone
    \/ AssembleRivers

SpecWorld == InitWorld /\ [][NextWorld]_vars

----------------------------------------------------------------------------
(* Vocabulary of the properties *)

Range(q) == { q[k] : k \in 1 .. Len(q) }

\* the cells at or below sea level
Ocean == { c \in Cells : elevations[c] <= SeaLevel }

\* the cells one adjacency hop from a cell of S
Hop(S) == UNION { Range(adjacency[c]) : c \in S }

\* the cells reachable through the adjacency lists from the cells of S
RECURSIVE ReachableFrom(_)
ReachableFrom(S) ==
    LET T == S \cup Hop(S)
    IN  IF T = S THEN S ELSE ReachableFrom(T)

\* the cells with a path of cached neighbours to a cell of S along which the
\* elevation never increases
RECURSIVE DrainsTo(_)
DrainsTo(S) ==
    LET T == S \cup { c \in Cells : \E n \in Range(adjacency[c]) :
                                        n \in S /\ elevations[n] <= elevations[c] }
    IN  IF T = S THEN S ELSE DrainsTo(T)

\* fillSinks has returned: its loop has found the heap empty.  No later step
\* writes elevations, visited or parent.
FillSinksCompleted == pc = "flood" /\ Len(heap) = 0

\* the downhill pass of generateRivers has just run.  No later step writes
\* downhill, distance or elevations.
DownhillAssigned == pc = "sort"

\* the cell reached from c by following k downhill links (NoCell: the chain ended before)
RECURSIVE Follow(_, _)
Follow(c, k) ==
    IF c = NoCell \/ k = 0 THEN c ELSE Follow(downhill[c], k - 1)

\* the downhill chain of d meets c within k links
RECURSIVE Reaches(_, _, _)
Reaches(d, c, k) ==
    /\ k > 0
    /\ downhill[d] # NoCell
    /\ (downhill[d] = c \/ Reaches(downhill[d], c, k - 1))

\* the cells other than c whose downhill chain passes through or ends at c
Upstream(c) == { d \in Cells \ {c} : Reaches(d, c, cellCount) }

RECURSIVE Sum(_, _)
Sum(f, S) ==
    IF S = {}
    THEN 0
    ELSE LET x == CHOOSE y \in S : TRUE
         IN  f[x] + Sum(f, S \ {x})

----------------------------------------------------------------------------
(* C1. Drainage monotonicity: once fillSinks has returned, every cell above  *)
(* sea level that is reachable through the adjacency lists from a seed has  *)
(* a path of cached neighbours to a cell at or below sea level along which  *)
(* the elevation does not increase at any step.                             *)
DrainageMonotonicity ==
    FillSinksCompleted =>
        \A c \in ReachableFrom(Ocean) :
            elevations[c] > SeaLevel => c \in DrainsTo(Ocean)

\* fillSinks has returned and it raised a pit that lies two hops from the sea
DrainageMonotonicityWitness ==
    /\ FillSinksCompleted
    /\ \E c \in ReachableFrom(Ocean) :
          /\ elevations[c] \notin Levels
          /\ parent[c] # NoCell
          /\ parent[c] \notin Ocean

(* C2. No-cycle flow: the downhill links form a forest.  Following them     *)
(* from any cell ends, within cellCount steps, at a cell that has no         *)
(* downhill target, and no cell is met again on its own chain.              *)
NoCycleFlow ==
    DownhillAssigned =>
        \A c \in Cells :
            /\ Follow(c, cellCount) = NoCell
            /\ ~Reaches(c, c, cellCount)

\* a chain of two downhill links exists
NoCycleFlowWitness ==
    /\ DownhillAssigned
    /\ \E c \in Cells : downhill[c] # NoCell /\ downhill[downhill[c]] # NoCell

(* C3, as stated: after flux accumulation every cell's flux is at least 1   *)
(* plus the sum of the final flux values of all cells whose downhill chain  *)
(* passes through or ends at it.                                            *)
FluxAtLeastSumOfUpstreamFlux ==
    pc = "rivers" =>
        \A c \in Cells : flux[c] >= 1 + Sum(flux, Upstream(c))

(* C3, amended: after flux accumulation every cell's flux is at least 1     *)
(* plus the number of cells whose downhill chain passes through or ends at  *)
(* it (the unit volume of each), and at least 1 plus the sum of the final   *)
(* flux of the cells whose downhill target it is.                           *)
FluxLowerBound ==
    pc = "rivers" =>
        \A c \in Cells :
            /\ flux[c] >= 1 + Cardinality(Upstream(c))
            /\ flux[c] >= 1 + Sum(flux, { d \in Cells : downhill[d] = c })

\* accumulation has ended and some cell collected a chain of two links
FluxLowerBoundWitness ==
    /\ pc = "rivers"
    /\ \E c \in Cells : \E d \in Upstream(c) :
          downhill[d] # c /\ flux[c] >= 3

\* how many slots of the heap array hold x
Occurrences(h, x) == Cardinality({ k \in 1 .. Len(h) : h[k] = x })

(* C4. MinHeap extract-minimum: under any sequence of push and pop the heap *)
(* holds exactly the bag of the elements pushed and not yet popped (an      *)
(* element pushed several times is held that many times), length is the     *)
(* size of that bag, and the element a pop on a non-empty heap returns was  *)
(* held and compares no greater than any element, itself included, that was *)
(* held; held loses one occurrence of it.                                   *)
HeapExtractsMinimum ==
    /\ \A x \in Cells : Occurrences(heap, x) = CopiesIn(x, held)
    /\ Len(heap) = BagCardinality(held)
    /\ pc = "pop" =>
          /\ top \in Cells
          /\ \A x \in Range(heap) : compare(elevations, top, x) <= 0

\* a pop returned an element of which the heap still holds another occurrence,
\* beside an element that compares greater
HeapExtractsMinimumWitness ==
    /\ pc = "pop"
    /\ Len(heap) >= 3
    /\ top \in Range(heap)
    /\ \E x \in Range(heap) : compare(elevations, top, x) < 0

(* C5. Extraction from an empty MinHeap returns undefined and leaves the    *)
(* heap empty, holding nothing.                                             *)
EmptyPopIsUndefined ==
    pc = "popEmpty" => top = Undefined /\ heap = << >> /\ held = EmptyBag

\* pop was called on an empty heap
EmptyPopIsUndefinedWitness ==
    pc = "popEmpty" /\ top = Undefined /\ Len(heap) = 0

(* C6, as stated: once fillSinks has returned, every cell that was marked   *)
(* visited from a neighbour u is strictly higher than u.                    *)
StrictGradientToParent ==
    FillSinksCompleted =>
        \A v \in Cells :
            parent[v] # NoCell => elevations[v] > elevations[parent[v]]

(* C7, as stated: a downhill target is strictly lower than its cell, and a  *)
(* cell above the near-sea-level threshold without a strictly lower         *)
(* neighbour has no downhill target.                                        *)
DownhillStrictlyLower ==
    DownhillAssigned =>
        \A i \in Cells :
            elevations[i] > NearSeaLevel =>
                /\ downhill[i] # NoCell => elevations[downhill[i]] < elevations[i]
                /\ (\A n \in Range(adjacency[i]) : elevations[n] >= elevations[i])
                      => downhill[i] = NoCell

\* neighbour n is at least as good a drainage target as neighbour m
NoWorse(n, m) ==
    \/ elevations[n] < elevations[m]
    \/ elevations[n] = elevations[m] /\ distance[n] <= distance[m]

\* neighbour n beats staying at cell i
Improves(n, i) ==
    \/ elevations[n] < elevations[i]
    \/ elevations[n] = elevations[i] /\ distance[n] < distance[i]

(* Lemma, the downhill pass as coded (it is what C2 and C8 rest on): for    *)
(* every cell i above the near-sea-level threshold, the downhill target, if *)
(* set, is a neighbour that is strictly lower than i, or level with i and   *)
(* strictly nearer the coast; it has the lowest elevation among the         *)
(* neighbours and the smallest coast distance among the neighbours at that  *)
(* elevation; and downhill[i] is 'none' exactly when no neighbour is        *)
(* strictly lower or level and strictly nearer the coast.  Cells at or      *)
(* below the threshold have no downhill target.                             *)
DownhillLowerOrNearer ==
    DownhillAssigned =>
        \A i \in Cells :
            IF elevations[i] > NearSeaLevel
            THEN /\ downhill[i] # NoCell =>
                       /\ downhill[i] \in Range(adjacency[i])
                       /\ Improves(downhill[i], i)
                       /\ \A n \in Range(adjacency[i]) : NoWorse(downhill[i], n)
                 /\ downhill[i] = NoCell <=>
                       \A n \in Range(adjacency[i]) : ~Improves(n, i)
            ELSE downhill[i] = NoCell

\* one cell drains to a strictly lower neighbour, another to a level neighbour
\* nearer the coast
DownhillLowerOrNearerWitness ==
    /\ DownhillAssigned
    /\ \E i \in Cells :
          downhill[i] # NoCell /\ elevations[downhill[i]] = elevations[i]
    /\ \E i \in Cells :
          downhill[i] # NoCell /\ elevations[downhill[i]] < elevations[i]

\* the place of cell c in sortedIndices
Position(c) == CHOOSE k \in 1 .. Len(sortedIndices) : sortedIndices[k] = c

(* C8. Accumulation order: in sortedIndices, as the accumulation loop finds *)
(* it, every cell with a downhill target stands strictly before its target, *)
(* and when the loop reaches a cell its flux already holds the unit of      *)
(* every cell upstream of it.                                               *)
AccumulationOrder ==
    pc = "flux" =>
        /\ fluxPos = 0 =>
              \A i \in Cells :
                  downhill[i] # NoCell => Position(i) < Position(downhill[i])
        /\ fluxPos < cellCount =>
              LET i == sortedIndices[fluxPos + 1]
              IN  flux[i] = 1 + Cardinality(Upstream(i))

\* the loop is about to add the flux of a cell that has collected an upstream
\* cell, and some cell drains to a neighbour level with it
AccumulationOrderWitness ==
    /\ pc = "flux"
    /\ fluxPos < cellCount
    /\ LET i == sortedIndices[fluxPos + 1]
       IN  downhill[i] # NoCell /\ flux[i] >= 2
    /\ \E i \in Cells :
          downhill[i] # NoCell /\ elevations[downhill[i]] = elevations[i]

(* C9, as stated: after fillSinks and downhill assignment, every cell above *)
(* the near-sea-level threshold that is reachable from a seed has a         *)
(* downhill target, and its downhill chain ends at a cell at or below the   *)
(* threshold.                                                               *)
DrainageRootedAtSeaLevel ==
    DownhillAssigned =>
        \A c \in ReachableFrom(Ocean) :
            elevations[c] > NearSeaLevel =>
                /\ downhill[c] # NoCell
                /\ \E k \in 1 .. cellCount :
                      /\ Follow(c, k) # NoCell
                      /\ elevations[Follow(c, k)] <= NearSeaLevel

\* the cells within k adjacency hops of the sea
RECURSIVE Within(_)
Within(k) ==
    IF k = 0
    THEN Ocean
    ELSE LET W == Within(k - 1)
         IN  W \cup Hop(W)

\* the least number of adjacency hops from a cell at or below sea level to i,
\* where L[k] is the set of the cells within k hops
HopCount(L, i) ==
    CHOOSE k \in 0 .. cellCount : i \in L[k] /\ (k = 0 \/ i \notin L[k - 1])

(* C10. Coast distance is the breadth-first shortest distance: when         *)
(* calculateDistanceToCoast returns, distance is 0 exactly for the cells at *)
(* or below sea level, the least number of adjacency hops from such a cell  *)
(* for every reachable cell, and -1 exactly for the cells that cannot be    *)
(* reached from one.                                                        *)
CoastDistanceIsShortest ==
    pc = "downhill" =>
        LET L == [k \in 0 .. cellCount |-> Within(k)]
            R == ReachableFrom(Ocean)
        IN  \A i \in Cells :
                /\ distance[i] = 0 <=> elevations[i] <= SeaLevel
                /\ i \in R => distance[i] = HopCount(L, i)
                /\ distance[i] = NoCell <=> i \notin R

\* the pass has run; one cell got distance 2 and has two neighbours, one cell
\* could not be reached
CoastDistanceIsShortestWitness ==
    /\ pc = "downhill"
    /\ \E i \in Cells : distance[i] = NoCell
    /\ \E i \in Cells : distance[i] = 2 /\ Len(adjacency[i]) = 2

\* the cells for which the river assembly emits a record
RiverCells ==
    { i \in Cells : flux[i] > RIVER_THRESHOLD /\ elevations[i] > SeaLevel /\ downhill[i] # NoCell }

\* the record of cell i: its position, the position of its downhill target, its
\* flux, as single-precision numbers
RiverRecord(i) ==
    << toFloat32(points[2 * i]), toFloat32(points[(2 * i) + 1]),
       toFloat32(points[2 * downhill[i]]), toFloat32(points[(2 * downhill[i]) + 1]),
       flux[i] >>

\* the k-th record of the list returned (five numbers each)
RecordAt(k) == SubSeq(riverSegments, (5 * k) - 4, 5 * k)

\* the k-th record is a segment for cell i: it starts at the position of i
IsSegmentOf(k, i) ==
    /\ RecordAt(k)[1] = toFloat32(points[2 * i])
    /\ RecordAt(k)[2] = toFloat32(points[(2 * i) + 1])

(* C11. River extraction: the list returned is made of records of five      *)
(* numbers.  It holds a segment for cell i if and only if flux[i] > 50,     *)
(* elevation[i] > 0 and downhill[i] is set; every such cell has exactly one *)
(* record, which is (position of i, position of downhill[i], flux[i]), and  *)
(* every record of the list is the record of such a cell.                   *)
RiverExtraction ==
    pc = "done" =>
        LET Records == 1 .. (Len(riverSegments) \div 5)
        IN  /\ Len(riverSegments) % 5 = 0
            /\ \A i \in Cells :
                  i \in RiverCells <=> \E k \in Records : IsSegmentOf(k, i)
            /\ \A i \in RiverCells :
                  /\ Cardinality({ k \in Records : IsSegmentOf(k, i) }) = 1
                  /\ \A k \in Records : IsSegmentOf(k, i) => RecordAt(k) = RiverRecord(i)
            /\ \A k \in Records : \E i \in RiverCells : RecordAt(k) = RiverRecord(i)

\* the list holds two records, while one cell is left out for a flux of exactly
\* 50, one for its elevation and one for want of a downhill target
RiverExtractionWitness ==
    /\ pc = "done"
    /\ Len(riverSegments) = 10
    /\ \E i \in Cells :
          flux[i] = RIVER_THRESHOLD /\ elevations[i] > SeaLevel /\ downhill[i] # NoCell
    /\ \E i \in Cells :
          flux[i] > RIVER_THRESHOLD /\ elevations[i] <= SeaLevel /\ downhill[i] # NoCell
    /\ \E i \in Cells :
          flux[i] > RIVER_THRESHOLD /\ elevations[i] > SeaLevel /\ downhill[i] = NoCell

\* the field is the same constant in every cell
Uniform(f) == \A c, d \in Cells : f[c] = f[d]

\* smoothMap has returned
Smoothed == pc = "fillSinks" /\ smooth.iterations = smooth.k /\ smooth.other # << >>

(* C12. Idempotent smoothing on uniform input: whatever the adjacency and   *)
(* the iteration count, smoothMap applied to a field that has the same      *)
(* value in every cell never writes another value: the array handed in and  *)
(* the values computed so far are that constant at every step, and the      *)
(* field is unchanged when smoothMap returns.                               *)
SmoothingKeepsUniformField ==
    Uniform(raw) =>
        /\ elevations = raw
        /\ pc = "pass" => \A c \in 0 .. (smooth.i - 1) :
                              contents(otherArray(smooth.current), elevations, smooth)[c] = raw[c]

\* smoothMap has returned after an odd number of passes, more than one, over a
\* uniform field that is not zero, on a mesh where some cell has three neighbours
SmoothingKeepsUniformFieldWitness ==
    /\ Smoothed
    /\ smooth.iterations = 3
    /\ Uniform(raw)
    /\ \E c \in Cells : raw[c] # 0 /\ Len(adjacency[c]) = 3

\* one pass of the map "each cell := mean of its own value and the values of
\* all its cached neighbours", every mean taken over the field f
MeanOfSelfAndNeighbors(f) ==
    [c \in Cells |-> mean(f[c] + Sum(f, Range(adjacency[c])),
                          1 + Cardinality(Range(adjacency[c])))]

\* the n-th iterate of that map on the field f
RECURSIVE Iterate(_, _)
Iterate(n, f) ==
    IF n = 0 THEN f ELSE MeanOfSelfAndNeighbors(Iterate(n - 1, f))

(* C17. Double-buffered smoothing: whatever the iteration count, odd or     *)
(* even, when smoothMap(data, k) returns data holds the k-th iterate, on    *)
(* the original data, of the map "each cell := mean of its own previous-    *)
(* pass value and the previous-pass values of all its cached neighbours".   *)
(* Within a pass the array read holds the previous iterate untouched, and   *)
(* every value written so far is the mean over that previous iterate: none  *)
(* is computed from a value written in the same pass.                       *)
DoubleBufferedSmoothing ==
    /\ Smoothed => elevations = Iterate(smooth.iterations, raw)
    /\ pc = "pass" =>
          LET previous == Iterate(smooth.k, raw)
          IN  /\ contents(smooth.current, elevations, smooth) = previous
              /\ smooth.k < smooth.iterations =>
                    \A c \in 0 .. (smooth.i - 1) :
                        contents(otherArray(smooth.current), elevations, smooth)[c]
                            = MeanOfSelfAndNeighbors(previous)[c]

\* smoothMap has returned after three passes, each of which changed the field,
\* so that the result was copied back to data
DoubleBufferedSmoothingWitness ==
    /\ Smoothed
    /\ smooth.iterations = 3
    /\ smooth.current = "other"
    /\ Iterate(1, raw) # raw
    /\ Iterate(2, raw) # Iterate(1, raw)
    /\ elevations # Iterate(2, raw)

\* the seeds of fillSinks: the cells at or below sea level when it starts
RawOcean == { c \in Cells : raw[c] <= SeaLevel }

\* fillSinks is running or has just returned
Flooding == pc = "flood"

(* C13. Unreached cells keep their raw elevation: while fillSinks runs and  *)
(* when it returns, a cell that is not reachable through the adjacency      *)
(* lists from any seed (raw elevation <= 0) is not marked visited, is not   *)
(* in the queue and has not been extracted, and has its raw elevation.      *)
(* When there is no seed, fillSinks extracts nothing and changes nothing.   *)
UnreachedCellsKeepRawElevation ==
    Flooding =>
        /\ \A c \in Cells \ ReachableFrom(RawOcean) :
              /\ visited[c] = 0
              /\ c \notin Range(heap)
              /\ \A k \in 1 .. Len(popped) : popped[k].cell # c
              /\ parent[c] = NoCell
              /\ elevations[c] = raw[c]
        /\ RawOcean = {} =>
              /\ elevations = raw
              /\ heap = << >>
              /\ popped = << >>
              /\ top = Undefined

\* fillSinks has returned and raised some cell, while a cell that no seed
\* reaches is left lower than one of its neighbours
UnreachedCellsKeepRawElevationWitness ==
    /\ FillSinksCompleted
    /\ elevations # raw
    /\ \E c \in Cells \ ReachableFrom(RawOcean) :
          \E n \in Range(adjacency[c]) : elevations[c] < elevations[n]

(* C15. Low-to-high processing order: during fillSinks the elevations the  *)
(* extracted cells had when they were extracted form a non-decreasing       *)
(* sequence: after every extraction, the elevation of the cell just         *)
(* extracted is at least that of every cell extracted before.               *)
LowToHighProcessingOrder ==
    Flooding =>
        \A m \in 1 .. Len(popped) :
            popped[m].elevation <= popped[Len(popped)].elevation

\* fillSinks has extracted every cell, at three elevations or more, and one of
\* them had been raised
LowToHighProcessingOrderWitness ==
    /\ FillSinksCompleted
    /\ Len(popped) = cellCount
    /\ Cardinality({ popped[k].elevation : k \in 1 .. Len(popped) }) >= 3
    /\ \E k \in 1 .. Len(popped) : popped[k].elevation # raw[popped[k].cell]

\* how many times cell c has been extracted
Extractions(c) == Cardinality({ k \in 1 .. Len(popped) : popped[k].cell = c })

(* C16. fillSinks ends with an empty queue after at most N extractions:     *)
(* at every step a cell marked visited has been inserted exactly once (it   *)
(* is in the queue once, or has been extracted once) and an unmarked cell   *)
(* never, whether or not it was raised; every turn of the loop extracts     *)
(* one cell, so there are at most N turns; and when the loop ends the       *)
(* visited cells are exactly the cells reachable through the adjacency      *)
(* lists from the seeds, each extracted once.                               *)
InsertedOnceAndFloodComplete ==
    Flooding =>
        /\ Len(popped) <= cellCount
        /\ \A c \in Cells : Occurrences(heap, c) + Extractions(c) = visited[c]
        /\ FillSinksCompleted =>
              /\ { c \in Cells : visited[c] = 1 } = ReachableFrom(RawOcean)
              /\ Len(popped) = Cardinality(ReachableFrom(RawOcean))

\* fillSinks has returned; it inserted a cell it had raised and a cell above
\* sea level it had not raised, and left a cell unvisited
InsertedOnceAndFloodCompleteWitness ==
    /\ FillSinksCompleted
    /\ \E c \in Cells : visited[c] = 1 /\ elevations[c] # raw[c]
    /\ \E c \in Cells : visited[c] = 1 /\ elevations[c] = raw[c] /\ raw[c] > SeaLevel
    /\ \E c \in Cells : visited[c] = 0

\* the accumulation loop has ended
Accumulated == pc \in {"rivers", "done"}

\* a step leaves no flux value smaller than it was
FluxNotDecreased == \A c \in Cells : flux'[c] >= flux[c]

(* C18. Exact flux: after accumulation the flux of every cell c is 1 plus   *)
(* the sum of the final flux of the cells whose downhill target is c, and   *)
(* that is 1 plus the number of cells whose downhill chain passes through   *)
(* or ends at c.  Flux values start at 1 and no step decreases one.         *)
ExactFlux ==
    /\ [](Accumulated =>
            \A c \in Cells :
                /\ flux[c] = 1 + Sum(flux, { d \in Cells : downhill[d] = c })
                /\ flux[c] = 1 + Cardinality(Upstream(c)))
    /\ [](pc = "flux" /\ fluxPos = 0 => \A c \in Cells : flux[c] = 1)
    /\ [][FluxNotDecreased]_vars

\* accumulation has ended; one cell collects two cells directly and a third
\* through one of them
ExactFluxWitness ==
    /\ pc = "rivers"
    /\ \E c \in Cells :
          /\ flux[c] >= 4
          /\ Cardinality({ d \in Cells : downhill[d] = c }) = 2
          /\ \E d \in Upstream(c) : downhill[d] # c

\* the heap-order property under the elevations elev: no element compares less
\* than its parent (slot k of the array has its parent at slot k \div 2)
HeapOrdered(h, elev) ==
    \A k \in 2 .. Len(h) : compare(elev, h[k \div 2], h[k]) <= 0

\* the heap and the elevations after the next extraction and after each of the
\* insertions that follow it, up to the m-th neighbour of the extracted cell
AfterNeighbor(m) ==
    LET r == pop(heap, elevations)
        u == r.top
    IN  visitNeighbors([elev |-> elevations, visited |-> visited,
                        heap |-> r.heap, parent |-> parent],
                       u, SubSeq(adjacency[u], 1, m), 1)

\* a step leaves the elevation of every cell that is visited or in the heap as
\* it was; a cell whose elevation changes was unvisited, and is visited and once
\* in the heap afterwards
KeysStable ==
    \A c \in Cells :
        /\ (visited[c] = 1 \/ c \in Range(heap)) => elevations'[c] = elevations[c]
        /\ elevations'[c] # elevations[c] =>
              /\ visited[c] = 0
              /\ visited'[c] = 1
              /\ Occurrences(heap', c) = 1

(* C19. Stable keys in the queue: during fillSinks the elevation of a cell  *)
(* is not modified while the cell is in the heap or after it has been       *)
(* marked visited; a cell is raised only in the step that marks it and      *)
(* inserts it, before the insertion.  So the heap-order property (no        *)
(* element compares less than its parent, under the live elevations) holds  *)
(* after the seeding, after every extraction and after every insertion.     *)
StableKeysInQueue ==
    /\ [][KeysStable]_vars
    /\ [](Flooding =>
            /\ HeapOrdered(heap, elevations)
            /\ Len(heap) > 0 =>
                  \A m \in 0 .. Len(adjacency[heap[1]]) :
                      HeapOrdered(AfterNeighbor(m).heap, AfterNeighbor(m).elev))

\* the heap holds three cells or more at two elevations or more, one of them
\* raised before it was inserted
StableKeysInQueueWitness ==
    /\ Flooding
    /\ Len(heap) >= 3
    /\ Cardinality({ elevations[c] : c \in Range(heap) }) >= 2
    /\ \E c \in Range(heap) : elevations[c] # raw[c]

\* a step lowers no elevation and leaves the cells at or below sea level alone
OnlyLandRaised ==
    \A c \in Cells :
        /\ elevations'[c] >= elevations[c]
        /\ elevations[c] <= SeaLevel => elevations'[c] = elevations[c]

(* C20. fillSinks only raises land: no step decreases the elevation of a    *)
(* cell, no step modifies a cell whose elevation is <= 0, and the cells     *)
(* with elevation <= 0 are the same during and after fillSinks as before,   *)
(* so that the breadth-first coast-distance pass starts from the very cells *)
(* sink filling started from.                                               *)
FillSinksOnlyRaisesLand ==
    /\ [][OnlyLandRaised]_vars
    /\ [](Flooding => Ocean = RawOcean)
    /\ [](pc = "downhill" =>
            \A c \in Cells : distance[c] = 0 <=> raw[c] <= SeaLevel)

\* fillSinks has returned; it raised a pit, and it went from two cells at sea
\* level that lie next to each other on to the land
FillSinksOnlyRaisesLandWitness ==
    /\ FillSinksCompleted
    /\ \E c \in Cells : elevations[c] > raw[c]
    /\ \E c \in RawOcean :
          /\ \E n \in Range(adjacency[c]) : n \in RawOcean
          /\ \E n \in Range(adjacency[c]) : parent[n] = c

(* C14. Empty cell set: when the sampler yields no point (cell count 0),   *)
(* every later stage (smoothing, sink filling, coast distance, downhill     *)
(* assignment, flux accumulation, river extraction) completes without       *)
(* running the body of any of its loops over cells: no array gets an        *)
(* element, nothing is inserted in the heap or extracted from it, the river *)
(* segment list is empty, and every stage hands over to the next until the  *)
(* constructor is done.                                                     *)
EmptyCellSet ==
    cellCount = 0 =>
        /\ elevations = << >>
        /\ smooth.other = << >> /\ smooth.i = 0
        /\ visited = << >> /\ heap = << >> /\ popped = << >> /\ top = Undefined
        /\ distance = << >>
        /\ downhill = << >>
        /\ flux = << >> /\ sortedIndices = << >> /\ fluxPos = 0
        /\ riverSegments = << >>
        /\ pc # "done" => ENABLED NextWorld

\* the constructor is done for a world without cells, after smoothMap was
\* called with 2 iterations
EmptyCellSetWitness ==
    /\ cellCount = 0
    /\ pc = "done"
    /\ smooth.iterations = 2
    /\ smooth.k = 2
    /\ riverSegments = << >>

====
